---- MODULE Spec2Model ----
(***************************************************************************)
(* ElGamal cipher over a prime-order group (src/src/elgamal.rs).           *)
(*                                                                         *)
(* The group G (crate::ExtendedPoint) and its scalar field F (crate::Fr)   *)
(* are external to elgamal.rs.  They are modelled as the cyclic group of   *)
(* prime order Order: a point is its discrete logarithm in 0..Order-1, a   *)
(* scalar is a residue modulo Order.  Everything ElgamalCipher does is     *)
(* written in terms of PointAdd, PointSub and ScalarMul only.              *)
(***************************************************************************)
EXTENDS Naturals, FiniteSets

\* The group order is the OrderIdx-th prime: 2 gives 3, 3 gives 5, 4 gives 7.
OrderIdx == 2

IsPrime(p) == p > 1 /\ \A d \in 2..(p - 1) : p % d # 0

NthPrime(i) ==
    CHOOSE p \in 2..40 : IsPrime(p) /\ Cardinality({r \in 2..p : IsPrime(r)}) = i

Order == NthPrime(OrderIdx)

\* Number of messages combined by the homomorphic laws (m0..m3).
Terms == 4

(***************************************************************************)
(* The group and the scalar field.                                         *)
(***************************************************************************)
G == 0..(Order - 1)
F == 0..(Order - 1)

Identity == 0
FrZero == 0
FrOne == 1

PointAdd(p, q) == (p + q) % Order
PointSub(p, q) == (p + Order - q) % Order
ScalarMul(p, s) == (p * s) % Order

FrAdd(s, t) == (s + t) % Order
FrSub(s, t) == (s + Order - t) % Order
FrMul(s, t) == (s * t) % Order

(***************************************************************************)
(* ElgamalCipher: the pair (gamma, delta) and its operations.              *)
(***************************************************************************)
Cipher == [gamma : G, delta : G]

new(gamma, delta) == [gamma |-> gamma, delta |-> delta]

Default == new(Identity, Identity)

\* ElgamalCipher::encrypt, and two faulty variants of it: delta left
\* unmasked, and delta masked with the generator instead of the public point.
encrypt_no_mask(s, pub, gen, message) ==
    new(ScalarMul(gen, s), message)

encrypt_mask_generator(s, pub, gen, message) ==
    new(ScalarMul(gen, s), PointAdd(message, ScalarMul(gen, s)))

encrypt(s, pub, gen, message) ==
    new(ScalarMul(gen, s), PointAdd(message, ScalarMul(pub, s)))

\* ElgamalCipher::decrypt, and a faulty variant that adds the mask back.
decrypt_add(c, s) == PointAdd(c.delta, ScalarMul(c.gamma, s))

decrypt(c, s) == PointSub(c.delta, ScalarMul(c.gamma, s))

\* impl Add for &ElgamalCipher, and a faulty variant that adds other.gamma
\* into delta.
add_ref_delta_from_gamma(self, other) ==
    new(PointAdd(self.gamma, other.gamma), PointAdd(self.delta, other.gamma))

add_ref(self, other) ==
    new(PointAdd(self.gamma, other.gamma), PointAdd(self.delta, other.delta))

\* impl Add for ElgamalCipher, and a faulty variant that borrows self twice.
add_self_twice(self, other) == add_ref(self, self)

add(self, other) == add_ref(self, other)

\* impl AddAssign for ElgamalCipher: the new value of *self
add_assign(self, other) == add(self, other)

\* impl Sub for &ElgamalCipher, and two faulty variants: delta added instead
\* of subtracted, and gamma left as it was.
sub_ref_delta_added(self, other) ==
    new(PointSub(self.gamma, other.gamma), PointAdd(self.delta, other.delta))

sub_ref_gamma_kept(self, other) ==
    new(self.gamma, PointSub(self.delta, other.delta))

sub_ref(self, other) ==
    new(PointSub(self.gamma, other.gamma), PointSub(self.delta, other.delta))

\* impl Sub for ElgamalCipher
sub(self, other) == sub_ref(self, other)

\* impl SubAssign for ElgamalCipher: the new value of *self; and a faulty
\* variant that adds.
sub_assign_as_add(self, other) == add(self, other)

sub_assign(self, other) == sub(self, other)

\* impl Mul<&Fr> for &ElgamalCipher, and a faulty variant that scales delta
\* only.
mul_ref_delta_only(self, rhs) ==
    new(self.gamma, ScalarMul(self.delta, rhs))

mul_ref(self, rhs) ==
    new(ScalarMul(self.gamma, rhs), ScalarMul(self.delta, rhs))

\* impl Mul<Fr> for &ElgamalCipher
mul(self, rhs) == mul_ref(self, rhs)

\* impl MulAssign<Fr> for ElgamalCipher: the new value of *self; and a faulty
\* variant that scales delta only.
mul_assign_delta_only(self, rhs) ==
    new(self.gamma, ScalarMul(self.delta, rhs))

mul_assign(self, rhs) == mul_ref(self, rhs)

\* impl MulAssign<&Fr> for ElgamalCipher: the new value of *self
mul_assign_ref(self, rhs) == mul_ref(self, rhs)

(***************************************************************************)
(* State.                                                                  *)
(*   generator, secret, public   the receiver's key pair over generator    *)
(*   x, y                        two cipher values held by the caller      *)
(*   px, py                      the plaintext points x and y stand for    *)
(*   mx                          the scalar whose encoding x stands for    *)
(*   sx, sy                      the sender secrets x and y carry:         *)
(*                               x.gamma is generator * sx                 *)
(*   kind, n                     how x was built: kind of the chain and    *)
(*                               number of operators applied               *)
(*   a, b, k                     operands of the last operator applied     *)
(*   op                          the last operation                        *)
(*   decrypted, out, key         result of the last decryption of x        *)
(***************************************************************************)
VARIABLES generator, secret, public, x, y, px, py, mx, sx, sy, kind, n,
          a, b, k, op, decrypted, out, key

vars == <<generator, secret, public, x, y, px, py, mx, sx, sy, kind, n,
          a, b, k, op, decrypted, out, key>>

keys == <<generator, secret, public>>
operands == <<a, b, k>>
result == <<decrypted, out, key>>

NoResult == decrypted' = FALSE /\ out' = Identity /\ key' = FrZero

\* tests::gen: a receiver secret and its public point
InitKeys ==
    /\ generator \in G
    /\ secret \in F
    /\ public = ScalarMul(generator, secret)

InitRest ==
    /\ px = Identity /\ py = Identity /\ mx = FrZero
    /\ sx = FrZero /\ sy = FrZero
    /\ kind = "none" /\ n = 0
    /\ a = Default /\ b = Default /\ k = FrZero
    /\ op = "init"
    /\ decrypted = FALSE /\ out = Identity /\ key = FrZero

Init ==
    /\ InitKeys
    /\ x = Default /\ y = Default
    /\ InitRest

(***************************************************************************)
(* Encryption of a point and decryption under any secret.                  *)
(***************************************************************************)
\* x = ElgamalCipher::encrypt(&s, &public, &generator, &message)
EncryptPoint ==
    \E s \in F, message \in G :
        /\ x' = encrypt(s, public, generator, message)
        /\ px' = message
        /\ sx' = s
        /\ kind' = "enc" /\ n' = 0
        /\ op' = "encrypt"
        /\ NoResult
        /\ UNCHANGED <<keys, y, py, sy, mx, operands>>

\* out = x.decrypt(&r)
DecryptAny ==
    /\ \E r \in F :
        /\ out' = decrypt(x, r)
        /\ key' = r
    /\ decrypted' = TRUE
    /\ UNCHANGED <<keys, x, y, px, py, mx, sx, sy, kind, n, operands, op>>

Next == EncryptPoint \/ DecryptAny

Spec == Init /\ [][Next]_vars

\* C1 (round trip): a cipher made by encrypt for public = generator * secret,
\* with any sender secret (zero included), any generator and any message
\* point, decrypts under secret to the message.
RoundTrip ==
    (op = "encrypt" /\ decrypted /\ key = secret) => out = px

RoundTripWitness ==
    /\ op = "encrypt" /\ decrypted /\ key = secret
    /\ generator # Identity /\ secret # FrZero /\ sx # FrZero
    /\ x.delta # px
    /\ out = px /\ px # Identity

\* C6 as claimed (wrong-key divergence): for every sender secret, a cipher
\* decrypted under any secret other than the receiver's never gives the
\* message.  The generator is taken to be a generator, not the identity.
WrongKeyAlwaysDiverges ==
    (op = "encrypt" /\ decrypted /\ key # secret /\ generator # Identity)
        => out # px

\* C6 as amended: with a generator other than the identity and a sender
\* secret other than zero, decryption under any secret other than the
\* receiver's never gives the message.
WrongKeyDiverges ==
    (/\ op = "encrypt" /\ decrypted /\ key # secret
     /\ generator # Identity /\ sx # FrZero) => out # px

WrongKeyWitness ==
    /\ op = "encrypt" /\ decrypted
    /\ key = FrSub(secret, FrOne)
    /\ generator # Identity /\ sx # FrZero
    /\ out # px

\* C10 (exact condition): with a generator other than the identity, the cipher
\* encrypt(s, generator * r, generator, M) decrypts under r' to M exactly when
\* s = 0 or r' = r; a cipher made with sender secret zero is (identity, M) and
\* decrypts to M under every secret, whatever the generator.
ExactRecovery ==
    /\ (op = "encrypt" /\ decrypted /\ generator # Identity) =>
           ((out = px) <=> (sx = FrZero \/ key = secret))
    /\ (op = "encrypt" /\ sx = FrZero) =>
           /\ x = new(Identity, px)
           /\ decrypted => out = px

ExactRecoveryWitness ==
    /\ op = "encrypt" /\ decrypted
    /\ generator # Identity /\ px # Identity
    /\ sx = FrZero /\ key # secret
    /\ out = px

(***************************************************************************)
(* Chains of one operator over freshly encrypted scalar messages, as in    *)
(* tests::homomorphic_add, homomorphic_sub and homomorphic_mul: a message  *)
(* is the point generator * m of a scalar m, and mx follows the scalars.   *)
(***************************************************************************)
\* The chain x is after one more operator of kind c: a chain stays of kind c
\* while it has at most Terms messages, anything else is "mix".
ChainKind(c) == IF kind \in {"enc", c} /\ n < Terms - 1 THEN c ELSE "mix"
ChainLen(c) == IF kind \in {"enc", c} /\ n < Terms - 1 THEN n + 1 ELSE 0

\* x = ElgamalCipher::encrypt(&s, &public, &generator, &(generator * m))
EncryptScalar ==
    \E s \in F, m \in F :
        /\ x' = encrypt(s, public, generator, ScalarMul(generator, m))
        /\ px' = ScalarMul(generator, m)
        /\ mx' = m
        /\ sx' = s
        /\ kind' = "enc" /\ n' = 0
        /\ op' = "encrypt"
        /\ NoResult
        /\ UNCHANGED <<keys, y, py, sy, operands>>

\* The operand of a chain: a fresh encryption of generator * m.
Fresh(s, m) == encrypt(s, public, generator, ScalarMul(generator, m))

\* The rest of a step that put one more operator of kind c on the chain.
Chain(c) ==
    /\ kind' = ChainKind(c) /\ n' = ChainLen(c)
    /\ op' = "combine"
    /\ NoResult
    /\ UNCHANGED <<keys, y, py, sy, operands>>

\* What x stands for after it was scaled by m.
ScalarGhost(m) ==
    /\ px' = ScalarMul(px, m)
    /\ mx' = FrMul(mx, m)
    /\ sx' = FrMul(sx, m)
    /\ Chain("prod")

\* x = &x + &encrypt(..)
AddRefFresh ==
    \E s \in F, m \in F :
        /\ x' = add_ref(x, Fresh(s, m))
        /\ px' = PointAdd(px, ScalarMul(generator, m))
        /\ mx' = FrAdd(mx, m)
        /\ sx' = FrAdd(sx, s)
        /\ Chain("sum")

\* x = x + encrypt(..)
AddFresh ==
    \E s \in F, m \in F :
        /\ x' = add(x, Fresh(s, m))
        /\ px' = PointAdd(px, ScalarMul(generator, m))
        /\ mx' = FrAdd(mx, m)
        /\ sx' = FrAdd(sx, s)
        /\ Chain("sum")

\* x += encrypt(..)
AddAssignFresh ==
    \E s \in F, m \in F :
        /\ x' = add_assign(x, Fresh(s, m))
        /\ px' = PointAdd(px, ScalarMul(generator, m))
        /\ mx' = FrAdd(mx, m)
        /\ sx' = FrAdd(sx, s)
        /\ Chain("sum")

\* x = &x - &encrypt(..)
SubRefFresh ==
    \E s \in F, m \in F :
        /\ x' = sub_ref(x, Fresh(s, m))
        /\ px' = PointSub(px, ScalarMul(generator, m))
        /\ mx' = FrSub(mx, m)
        /\ sx' = FrSub(sx, s)
        /\ Chain("diff")

\* x = x - encrypt(..)
SubFresh ==
    \E s \in F, m \in F :
        /\ x' = sub(x, Fresh(s, m))
        /\ px' = PointSub(px, ScalarMul(generator, m))
        /\ mx' = FrSub(mx, m)
        /\ sx' = FrSub(sx, s)
        /\ Chain("diff")

\* x -= encrypt(..)
SubAssignFresh ==
    \E s \in F, m \in F :
        /\ x' = sub_assign(x, Fresh(s, m))
        /\ px' = PointSub(px, ScalarMul(generator, m))
        /\ mx' = FrSub(mx, m)
        /\ sx' = FrSub(sx, s)
        /\ Chain("diff")

\* x = &x * &m
MulRefScalar ==
    \E m \in F :
        /\ x' = mul_ref(x, m)
        /\ ScalarGhost(m)

\* x = &x * m
MulScalar ==
    \E m \in F :
        /\ x' = mul(x, m)
        /\ ScalarGhost(m)

\* x *= m
MulAssignScalar ==
    \E m \in F :
        /\ x' = mul_assign(x, m)
        /\ ScalarGhost(m)

\* x *= &m
MulAssignRefScalar ==
    \E m \in F :
        /\ x' = mul_assign_ref(x, m)
        /\ ScalarGhost(m)

\* out = x.decrypt(&secret)
DecryptOwn ==
    /\ out' = decrypt(x, secret)
    /\ key' = secret
    /\ decrypted' = TRUE
    /\ UNCHANGED <<keys, x, y, px, py, mx, sx, sy, kind, n, operands, op>>

NextLaws ==
    \/ EncryptScalar
    \/ AddRefFresh \/ AddFresh \/ AddAssignFresh
    \/ SubRefFresh \/ SubFresh \/ SubAssignFresh
    \/ MulRefScalar \/ MulScalar \/ MulAssignScalar \/ MulAssignRefScalar
    \/ DecryptOwn

SpecLaws == Init /\ [][NextLaws]_vars

\* C2 (addition law): the sum c0 + c1 + c2 + c3 of encryptions of
\* generator * m0 .. generator * m3, under equal or different sender secrets,
\* decrypts under the receiver's secret to generator * (m0 + m1 + m2 + m3).
AddLaw ==
    (kind = "sum" /\ n = Terms - 1 /\ decrypted /\ key = secret) =>
        out = ScalarMul(generator, mx)

AddLawWitness ==
    /\ kind = "sum" /\ n = Terms - 1 /\ decrypted /\ key = secret
    /\ generator # Identity /\ secret # FrZero
    /\ x.gamma # Identity /\ x.delta # out
    /\ mx # FrZero /\ out = ScalarMul(generator, mx)

\* C3 (subtraction law): ((c0 - c1) - c2) - c3 decrypts under the receiver's
\* secret to generator * (m0 - m1 - m2 - m3).
SubLaw ==
    (kind = "diff" /\ n = Terms - 1 /\ decrypted /\ key = secret) =>
        out = ScalarMul(generator, mx)

SubLawWitness ==
    /\ kind = "diff" /\ n = Terms - 1 /\ decrypted /\ key = secret
    /\ generator # Identity /\ secret # FrZero
    /\ x.gamma # Identity /\ x.delta # out
    /\ mx # FrZero /\ out = ScalarMul(generator, mx)

\* C4 (scalar multiplication law): ((c * m1) * m2) * m3, for c an encryption of
\* generator * m0 and any scalars m1, m2, m3 (zero included), decrypts under
\* the receiver's secret to generator * (m0 * m1 * m2 * m3).
MulLaw ==
    (kind = "prod" /\ n = Terms - 1 /\ decrypted /\ key = secret) =>
        out = ScalarMul(generator, mx)

MulLawWitness ==
    /\ kind = "prod" /\ n = Terms - 1 /\ decrypted /\ key = secret
    /\ generator # Identity /\ secret # FrZero
    /\ x.gamma # Identity /\ x.delta # out
    /\ mx \notin {FrZero, FrOne} /\ out = ScalarMul(generator, mx)

(***************************************************************************)
(* Any mix of the operators over two cipher values x and y, each an        *)
(* encryption under public or a combination of such.                       *)
(***************************************************************************)
\* y = x (ElgamalCipher is Copy)
CopyToY ==
    /\ y' = x
    /\ py' = px
    /\ sy' = sx
    /\ UNCHANGED <<keys, x, px, mx, sx, kind, n, operands, op, result>>

\* The rest of a step that combined x with y or with a scalar.
Mixed ==
    /\ kind' = "mix" /\ n' = 0
    /\ op' = "combine"
    /\ NoResult
    /\ UNCHANGED <<keys, y, py, sy, mx, operands>>

\* What x stands for after it was scaled by m.
RegScalarGhost(m) ==
    /\ px' = ScalarMul(px, m)
    /\ sx' = FrMul(sx, m)
    /\ Mixed

\* x = &x + &y
AddRefY ==
    /\ x' = add_ref(x, y)
    /\ px' = PointAdd(px, py)
    /\ sx' = FrAdd(sx, sy)
    /\ Mixed

\* x = x + y
AddY ==
    /\ x' = add(x, y)
    /\ px' = PointAdd(px, py)
    /\ sx' = FrAdd(sx, sy)
    /\ Mixed

\* x += y
AddAssignY ==
    /\ x' = add_assign(x, y)
    /\ px' = PointAdd(px, py)
    /\ sx' = FrAdd(sx, sy)
    /\ Mixed

\* x = &x - &y
SubRefY ==
    /\ x' = sub_ref(x, y)
    /\ px' = PointSub(px, py)
    /\ sx' = FrSub(sx, sy)
    /\ Mixed

\* x = x - y
SubY ==
    /\ x' = sub(x, y)
    /\ px' = PointSub(px, py)
    /\ sx' = FrSub(sx, sy)
    /\ Mixed

\* x -= y
SubAssignY ==
    /\ x' = sub_assign(x, y)
    /\ px' = PointSub(px, py)
    /\ sx' = FrSub(sx, sy)
    /\ Mixed

\* x = &x * &m
MulRefBy ==
    \E m \in F :
        /\ x' = mul_ref(x, m)
        /\ RegScalarGhost(m)

\* x = &x * m
MulBy ==
    \E m \in F :
        /\ x' = mul(x, m)
        /\ RegScalarGhost(m)

\* x *= m
MulAssignBy ==
    \E m \in F :
        /\ x' = mul_assign(x, m)
        /\ RegScalarGhost(m)

\* x *= &m
MulAssignRefBy ==
    \E m \in F :
        /\ x' = mul_assign_ref(x, m)
        /\ RegScalarGhost(m)

NextComb ==
    \/ EncryptPoint \/ CopyToY
    \/ AddRefY \/ AddY \/ AddAssignY
    \/ SubRefY \/ SubY \/ SubAssignY
    \/ MulRefBy \/ MulBy \/ MulAssignBy \/ MulAssignRefBy
    \/ DecryptOwn

SpecComb == Init /\ [][NextComb]_vars

\* C5 (homomorphism): whatever sequence of additions, subtractions and
\* scalings built x from encryptions under public, x decrypts under the
\* receiver's secret to the same combination of the plaintext points.
Homomorphism ==
    (decrypted /\ key = secret) => out = px

HomomorphismWitness ==
    /\ kind = "mix" /\ decrypted /\ key = secret
    /\ generator # Identity /\ secret # FrZero
    /\ x.gamma # Identity /\ y.gamma # Identity /\ x.delta # out
    /\ py # Identity /\ px # py
    /\ out = px /\ px # Identity

(***************************************************************************)
(* The operators on arbitrary ciphers (any gamma and delta, as built by    *)
(* new), with the operands of the last operator recorded in a, b and k.    *)
(***************************************************************************)
\* No key pair takes part: generator, secret and public keep their default
\* values, and x and y are any two ciphers.
InitAlg ==
    /\ generator = Identity /\ secret = FrZero /\ public = Identity
    /\ x \in Cipher
    /\ y \in Cipher
    /\ InitRest

Record(label, rhs) ==
    /\ a' = x
    /\ b' = y
    /\ k' = rhs
    /\ op' = label
    /\ NoResult
    /\ UNCHANGED <<keys, y, px, py, mx, sx, sy, kind, n>>

\* x = &x + &y
AddRefRec ==
    /\ x' = add_ref(x, y)
    /\ Record("add_ref", FrZero)

\* x = x + y
AddRec ==
    /\ x' = add(x, y)
    /\ Record("add", FrZero)

\* x += y
AddAssignRec ==
    /\ x' = add_assign(x, y)
    /\ Record("add_assign", FrZero)

\* x = &x - &y
SubRefRec ==
    /\ x' = sub_ref(x, y)
    /\ Record("sub_ref", FrZero)

\* x = x - y
SubRec ==
    /\ x' = sub(x, y)
    /\ Record("sub", FrZero)

\* x -= y
SubAssignRec ==
    /\ x' = sub_assign(x, y)
    /\ Record("sub_assign", FrZero)

\* x = &x * &m
MulRefRec ==
    \E m \in F :
        /\ x' = mul_ref(x, m)
        /\ Record("mul_ref", m)

\* x = &x * m
MulRec ==
    \E m \in F :
        /\ x' = mul(x, m)
        /\ Record("mul", m)

\* x *= m
MulAssignRec ==
    \E m \in F :
        /\ x' = mul_assign(x, m)
        /\ Record("mul_assign", m)

\* x *= &m
MulAssignRefRec ==
    \E m \in F :
        /\ x' = mul_assign_ref(x, m)
        /\ Record("mul_assign_ref", m)

NextAlg ==
    \/ AddRefRec \/ AddRec \/ AddAssignRec
    \/ SubRefRec \/ SubRec \/ SubAssignRec
    \/ MulRefRec \/ MulRec \/ MulAssignRec \/ MulAssignRefRec
    \/ DecryptAny

SpecAlg == InitAlg /\ [][NextAlg]_vars

\* C7 (commutativity): for any ciphers A and B, A + B and B + A have the same
\* gamma and the same delta.
AddCommutes ==
    /\ op = "add" => x = add(b, a)
    /\ op = "add_ref" => x = add_ref(b, a)

AddCommutesWitness ==
    /\ op = "add" /\ a # b
    /\ a.gamma # b.gamma /\ a.delta # b.delta /\ a.gamma # a.delta
    /\ x = add(b, a) /\ x # a /\ x # b

\* C8 (self-subtraction): for any cipher A, A - A is the cipher of two
\* identities, and it decrypts to the identity under every secret.
SelfSub ==
    (op \in {"sub", "sub_ref", "sub_assign"} /\ a = b) =>
        /\ x = new(Identity, Identity)
        /\ decrypted => out = Identity

SelfSubWitness ==
    /\ op = "sub" /\ a = b
    /\ a.gamma # Identity /\ a.delta # Identity
    /\ decrypted /\ key # FrZero /\ out = Identity

\* C9 (in-place operators): x += y, x -= y and x *= k (k by value or by
\* reference) leave in x what +, - and * give on the old x, component by
\* component; A + B and A - B by value give what &A + &B and &A - &B give;
\* the right operand is unchanged.
InPlaceEqual ==
    /\ op = "add_assign" =>
           /\ x = add(a, b)
           /\ x = new(PointAdd(a.gamma, b.gamma), PointAdd(a.delta, b.delta))
    /\ op = "sub_assign" =>
           /\ x = sub(a, b)
           /\ x = new(PointSub(a.gamma, b.gamma), PointSub(a.delta, b.delta))
    /\ op \in {"mul_assign", "mul_assign_ref"} =>
           /\ x = mul(a, k)
           /\ x = new(ScalarMul(a.gamma, k), ScalarMul(a.delta, k))
    /\ op = "add" => x = add_ref(a, b)
    /\ op = "sub" => x = sub_ref(a, b)
    /\ op \in {"add", "add_ref", "add_assign", "sub", "sub_ref", "sub_assign"}
           => y = b

InPlaceEqualWitness ==
    /\ op = "sub_assign"
    /\ b.gamma # Identity /\ b.delta # Identity
    /\ x = sub(a, b) /\ x # a /\ x # add(a, b) /\ y = b

====
